---- MODULE Spec2Model ----
(***************************************************************************)
(* Model of the ESP32 + DHT11 + Ollama demo.                               *)
(*                                                                         *)
(*   gateway/main.py   the /describe handler, the cached Open-Meteo        *)
(*                     lookup, build_prompt and call_ollama  (Spec)        *)
(*   firmware/main.py  the MicroPython polling loop with send_to_gateway   *)
(*                     and display_update                    (SpecFw)      *)
(*                                                                         *)
(* Numbers that are floats in the program (temperatures, humidities) are   *)
(* integers counted in hundredths: 22.5 is 2250.  An optional value is a   *)
(* sequence of length 0 (Python's None) or 1.  Text is a sequence of       *)
(* one-character strings, so that strip() can be computed.                 *)
(***************************************************************************)
EXTENDS Integers, Sequences, FiniteSets, TLC

\* ------------------------------------------------------------------ bounds
\* time.time() of the gateway, in seconds, is followed up to this value.
MaxClock == 2
\* Largest OUTSIDE_TEMP_CACHE_SECONDS the environment is given.
MaxTTL == 1
\* Longest generated text the inference server answers with.
MaxLen == 2
\* time.time() of the firmware, in seconds, is followed up to this value, in
\* steps of this many seconds.
MaxFwClock == 70
FwTickSec == 10

\* ------------------------------------------------------------------ values
None == <<>>
Some(v) == <<v>>
IsNone(o) == o = None
Val(o) == o[1]

\* Worker threads of the gateway serving /describe: a sync endpoint runs in the
\* framework's thread pool, so two requests may overlap.
Requests == {"w1", "w2"}

\* ---------------------------------------------------------- SensorReading
\* The Field(ge=, le=) constraints of the pydantic model.
ValidReading(rd) ==
    /\ rd.temperature_c >= -4000 /\ rd.temperature_c <= 8500
    /\ rd.humidity >= 0 /\ rd.humidity <= 10000
    /\ (IsNone(rd.outside_temp_c)
          \/ (Val(rd.outside_temp_c) >= -6000 /\ Val(rd.outside_temp_c) <= 6000))
    /\ (IsNone(rd.outside_humidity)
          \/ (Val(rd.outside_humidity) >= 0 /\ Val(rd.outside_humidity) <= 10000))

Reading(t, h, ot, oh) ==
    [temperature_c |-> t, humidity |-> h, outside_temp_c |-> ot, outside_humidity |-> oh]

\* Bodies the HTTP framework hands to describe(): the schema-valid ones among
\* these.  The out-of-range ones are answered 422 before the handler runs.
InboundCandidates ==
    { Reading(2250, 4100, None, None),
      Reading(2250, 4100, Some(1810), None),
      Reading(2250, 4100, None, Some(5500)),
      Reading(8500, 10000, Some(-6000), Some(10000)),
      Reading(8501, 4100, None, None),
      Reading(2250, 4100, Some(6001), None) }

Readings == { rd \in InboundCandidates : ValidReading(rd) }

\* round(x, 1) on a value in hundredths: to the nearest tenth, an exact tie
\* to the even tenth (Python rounds the exact binary value; the weather values
\* below have ties only at .25 and .75, which are exact in binary).
Round1(h) ==
    LET lo == (h \div 10) * 10
        r  == h - lo
    IN  IF r < 5 THEN lo
        ELSE IF r > 5 THEN lo + 10
        ELSE IF (lo \div 10) % 2 = 0 THEN lo ELSE lo + 10

\* ------------------------------------------------------------ build_prompt
\* The prompt is the sequence of lines that "\n".join(lines) joins.  A line
\* with a value is <<label, value, unit>>; a fixed line is <<text>>.
PreambleLine == <<"You are a home weather assistant.">>
EmptyLine == <<"">>
BaseLine ==
    <<"Write ONE friendly sentence describing the indoor conditions. The temperature is given in Celsius.">>
CompareLine == <<"Compare it with the outside temperature in Celsius.">>
MentionLine == <<"Mention the outside conditions in comparison to the indoor conditions.">>
StyleLine == <<"Avoid emojis. Be concise. Sound human.">>
InsideLine(v) == <<"Inside temperature: ", v, "°C">>
HumidityLine(v) == <<"Humidity: ", v, "%">>
OutsideLine(v) == <<"Outside temperature: ", v, "°C">>

\* MentionOrEmpty gated on the outside temperature instead of the humidity.
MentionOrEmpty_WrongField(rd) == IF IsNone(rd.outside_temp_c) THEN EmptyLine ELSE MentionLine

\* lines 80 and 81: the conditional instruction, or an empty line in its place
CompareOrEmpty(rd) == IF IsNone(rd.outside_temp_c) THEN EmptyLine ELSE CompareLine
MentionOrEmpty(rd) == IF IsNone(rd.outside_humidity) THEN EmptyLine ELSE MentionLine

build_prompt(rd) ==
    <<PreambleLine, EmptyLine, InsideLine(rd.temperature_c), HumidityLine(rd.humidity)>>
    \o (IF IsNone(rd.outside_temp_c) THEN <<>> ELSE <<OutsideLine(Val(rd.outside_temp_c))>>)
    \o <<EmptyLine, BaseLine, CompareOrEmpty(rd), MentionOrEmpty(rd), StyleLine>>

HasLine(p, l) == \E i \in 1..Len(p) : p[i] = l

\* ------------------------------------------------------------- call_ollama
Chars == {" ", "a"}
IsSpace(c) == c = " "

RECURSIVE LStrip(_)
LStrip(s) == IF s # <<>> /\ IsSpace(Head(s)) THEN LStrip(Tail(s)) ELSE s

RECURSIVE RStrip(_)
RStrip(s) ==
    IF s # <<>> /\ IsSpace(s[Len(s)]) THEN RStrip(SubSeq(s, 1, Len(s) - 1)) ELSE s

\* str.strip()
Strip(s) == RStrip(LStrip(s))

RECURSIVE TextsOfLen(_)
TextsOfLen(n) ==
    IF n = 0 THEN {<<>>}
    ELSE { Append(s, c) : s \in TextsOfLen(n - 1), c \in Chars }

Texts == UNION { TextsOfLen(n) : n \in 0..MaxLen }

\* What the inference server can answer to the one POST of call_ollama:
\*   transport  the POST times out or cannot connect (httpx.TransportError)
\*   status     a non-2xx status, with its body   (raise_for_status)
\*   badjson    2xx, the body is not JSON         (r.json() raises ValueError)
\*   notdict    2xx, JSON that is no object       (data.get raises)
\*   json       2xx, a JSON object; response is its "response" member:
\*              None when missing or null, otherwise the text
ErrorBodies == { <<"a">> }
OllamaAnswers ==
    { [kind |-> "transport", body |-> <<>>, response |-> None] }
    \cup { [kind |-> "status", body |-> b, response |-> None] : b \in ErrorBodies }
    \cup { [kind |-> "badjson", body |-> <<>>, response |-> None] }
    \cup { [kind |-> "notdict", body |-> <<>>, response |-> None] }
    \cup { [kind |-> "json", body |-> <<>>, response |-> None] }
    \cup { [kind |-> "json", body |-> <<>>, response |-> Some(t)] : t \in Texts }
NoAnswer == [kind |-> "", body |-> <<>>, response |-> None]

\* ResponseText without the strip().
ResponseText_NoStrip(ans) == IF IsNone(ans.response) THEN <<>> ELSE Val(ans.response)

\* line 101: (data.get("response") or "").strip()
ResponseText(ans) == Strip(IF IsNone(ans.response) THEN <<>> ELSE Val(ans.response))

\* call_ollama's outcome for an answer: the returned text, or the exception.
\*   HTTPStatusError carries the upstream body (e.response.text).
call_ollama(ans) ==
    IF ans.kind = "status"
      THEN [raised |-> "HTTPStatusError", text |-> ans.body]
    ELSE IF ans.kind # "json"
      THEN [raised |-> "Exception", text |-> <<>>]
    ELSE IF ResponseText(ans) = <<>>
      THEN [raised |-> "ValueError", text |-> <<>>]
    ELSE [raised |-> "", text |-> ResponseText(ans)]

\* DescribeResult with the two except clauses exchanged.
DescribeResult_Swapped(out) ==
    IF out.raised = "HTTPStatusError"
      THEN [status |-> 502, prefix |-> "Ollama unavailable: ", text |-> out.text]
    ELSE IF out.raised # ""
      THEN [status |-> 502, prefix |-> "Ollama error: ", text |-> out.text]
    ELSE [status |-> 200, prefix |-> "description", text |-> out.text]

\* lines 139-146 of describe: the response for call_ollama's outcome.
DescribeResult(out) ==
    IF out.raised = "HTTPStatusError"
      THEN [status |-> 502, prefix |-> "Ollama error: ", text |-> out.text]
    ELSE IF out.raised # ""
      THEN [status |-> 502, prefix |-> "Ollama unavailable: ", text |-> out.text]
    ELSE [status |-> 200, prefix |-> "description", text |-> out.text]

\* ------------------------------------------------- weather lookup (cached)
\* What the weather API can answer to the GET of lines 52-57:
\*   ok        2xx with numeric current.temperature_2m and current.humidity_2m
\*   neterr    network error or timeout
\*   status    non-2xx status (raise_for_status)
\*   badjson   the body is not JSON
\*   missing   a field is missing (KeyError)
\*   nonnum    temperature is numeric, humidity is not (float() raises after
\*             temp was assigned)
WeatherPairs == { <<1225, 5575>>, <<6004, 9996>>, <<6006, 5575>> }
WeatherFailures == {"neterr", "status", "badjson", "missing", "nonnum"}
WeatherAnswers ==
    { [kind |-> "ok", temp |-> p[1], humidity |-> p[2]] : p \in WeatherPairs }
    \cup { [kind |-> k, temp |-> 1225, humidity |-> 0] : k \in WeatherFailures }

\* line 41: both OPENMETEO_LAT and OPENMETEO_LON are non-empty
LocationSet(cfg) == cfg

\* IsFresh with the comparison turned around.
IsFresh_Reversed(cache, t, secs) == cache # None /\ (t - cache[3]) > secs

\* line 44: the cache holds an entry younger than the TTL
IsFresh(cache, t, secs) == cache # None /\ (t - cache[3]) < secs

\* lines 45 and 62: the (temp, humidity) of the cached tuple
CachedPair(cache) == <<cache[1], cache[2]>>

\* CacheAfterGet dropping the entry when the GET fails.
CacheAfterGet_DropOnFailure(cache, ans, t) ==
    IF ans.kind = "ok" THEN <<ans.temp, ans.humidity, t>> ELSE None

\* CacheAfterGet writing the cache as soon as the temperature is parsed.
CacheAfterGet_Partial(cache, ans, t) ==
    IF ans.kind \in {"ok", "nonnum"} THEN <<ans.temp, ans.humidity, t>> ELSE cache

\* line 58: the cache after the GET ended with answer ans; t is the local
\* `now` taken on line 43, before the GET
CacheAfterGet(cache, ans, t) ==
    IF ans.kind = "ok" THEN <<ans.temp, ans.humidity, t>> ELSE cache

\* lines 59-63: what the lookup returns after the GET ended with answer ans
ReturnAfterGet(cache, ans) ==
    IF ans.kind = "ok" THEN Some(<<ans.temp, ans.humidity>>)
    ELSE IF cache # None THEN Some(CachedPair(cache))
    ELSE None

\* ShouldEnrich asking for either outside field to be absent.
ShouldEnrich_Either(rd, cfg) ==
    (IsNone(rd.outside_temp_c) \/ IsNone(rd.outside_humidity)) /\ LocationSet(cfg)

\* line 126: the condition under which describe() calls the lookup
ShouldEnrich(rd, cfg) ==
    IsNone(rd.outside_temp_c) /\ IsNone(rd.outside_humidity) /\ LocationSet(cfg)

\* lines 129-134: the reading rebuilt with the outside pair
Enriched(rd, pair) ==
    Reading(rd.temperature_c, rd.humidity, Some(Round1(pair[1])), Some(Round1(pair[2])))

\* The framework's answer to an exception describe() does not handle.
InternalError == [status |-> 500, prefix |-> "Internal Server Error", text |-> <<>>]
NoResponse == [status |-> 0, prefix |-> "", text |-> <<>>]
NoReading == Reading(0, 0, None, None)

\* ------------------------------------------------------------------- state
VARIABLES
    configured,       \* OPENMETEO_LAT and OPENMETEO_LON are set
    ttl,              \* OUTSIDE_TEMP_CACHE_SECONDS
    cached_outside,   \* _cached_outside: None or <<temp, humidity, timestamp>>
    clock,            \* time.time() of the gateway
    pc,               \* where each request is in describe()
    inbound,          \* the validated body of each request
    reading,          \* describe()'s local `reading`
    now,              \* the lookup's local `now`
    outside,          \* describe()'s local `outside`
    prompt,           \* describe()'s local `prompt`, as sent in the POST
    result,           \* the response describe() ends with
    answer,           \* what the inference server answered to the POST
    looked_up,        \* history: the lookup was called for this request
    gets,             \* history: weather GETs issued for this request
    fetched,          \* history: how the lookup ended: hit, ok, failed, or "" (no lookup)
    posts,            \* history: inference POSTs issued for this request
    written_at        \* history: time.time() when line 58 last ran, or None

gwvars == <<configured, ttl, cached_outside, clock, pc, inbound, reading, now,
            outside, prompt, result, answer, looked_up, gets, fetched, posts,
            written_at>>

\* ---------------------------------------------------------------- firmware
SEND_INTERVAL_SEC == 30
HTTP_RETRIES == 2

\* "{:.0f}".format(x) on a value in hundredths: to the nearest whole, an exact
\* tie to the even one.
Round0(h) ==
    LET lo == (h \div 100) * 100
        r  == h - lo
    IN  IF r < 50 THEN lo
        ELSE IF r > 50 THEN lo + 100
        ELSE IF (lo \div 100) % 2 = 0 THEN lo ELSE lo + 100

\* What sensor.measure() and the two getters give in read_dht: a pair of
\* numbers (a DHT11 reports whole degrees and whole percent), a missing value,
\* or OSError (checksum error, timeout).
SensorValues == { <<2300, 4500>>, <<2400, 5000>> }
SensorOutcomes ==
    { [kind |-> "ok", t |-> v[1], h |-> v[2]] : v \in SensorValues }
    \cup { [kind |-> k, t |-> 0, h |-> 0] : k \in {"none", "oserror"} }

\* read_dht returning zeros when the read failed.
read_dht_ZeroOnFailure(o) ==
    IF o.kind = "ok" THEN Some(<<Round1(o.t), Round1(o.h)>>) ELSE Some(<<0, 0>>)

\* read_dht: None when the read failed, else (round(t, 1), round(h, 1))
read_dht(o) ==
    IF o.kind = "ok" THEN Some(<<Round1(o.t), Round1(o.h)>>) ELSE None

\* What one POST of http_post_json comes back with.  code is None for a
\* transport error (OSError), else the status.  The body of a 200 is
\*   desc     a JSON object with a string "description"
\*   nodesc   a JSON object without "description"
\*   null     a JSON object whose "description" is null
\*   nonstr   a JSON object whose "description" is a number
\*   notobj   JSON that is no object (out.get raises AttributeError)
\*   notjson  not JSON (json.loads raises ValueError)
RawBody == "raw body"
NonString == "7"
Descriptions == {"It's cozy inside.", ""}
Replies ==
    { [code |-> None, kind |-> "oserror", description |-> ""] }
    \cup { [code |-> Some(c), kind |-> "error", description |-> ""] : c \in {502, 422} }
    \cup { [code |-> Some(200), kind |-> "desc", description |-> d] : d \in Descriptions }
    \cup { [code |-> Some(200), kind |-> k, description |-> ""] :
             k \in {"nodesc", "null", "nonstr", "notobj", "notjson"} }
NoReply == [code |-> None, kind |-> "", description |-> ""]

Is200(rep) == rep.code = Some(200)

\* OnOk returning the raw body when the body is not JSON.
OnOk_RawFallback(rep) ==
    IF rep.kind = "notjson" THEN [raised |-> FALSE, value |-> Some(RawBody)]
    ELSE IF rep.kind = "notobj" THEN [raised |-> TRUE, value |-> None]
    ELSE IF rep.kind = "desc" THEN [raised |-> FALSE, value |-> Some(rep.description)]
    ELSE IF rep.kind = "nodesc" THEN [raised |-> FALSE, value |-> Some(RawBody)]
    ELSE IF rep.kind = "nonstr" THEN [raised |-> FALSE, value |-> Some(NonString)]
    ELSE [raised |-> FALSE, value |-> None]

\* lines 153-163: what send_to_gateway does with a 200: the value it returns
\* (None, or the description), or the exception it lets escape.
OnOk(rep) ==
    IF rep.kind = "notjson" THEN [raised |-> FALSE, value |-> None]
    ELSE IF rep.kind = "notobj" THEN [raised |-> TRUE, value |-> None]
    ELSE IF rep.kind = "desc" THEN [raised |-> FALSE, value |-> Some(rep.description)]
    ELSE IF rep.kind = "nodesc" THEN [raised |-> FALSE, value |-> Some(RawBody)]
    ELSE IF rep.kind = "nonstr" THEN [raised |-> FALSE, value |-> Some(NonString)]
    ELSE [raised |-> FALSE, value |-> None]

\* MoreAttempts with the bound off by one.
MoreAttempts_OffByOne(a) == a <= HTTP_RETRIES

\* line 148: another attempt follows attempt number a (counted from 0)
MoreAttempts(a) == a < HTTP_RETRIES

\* NewDescription storing whatever send_to_gateway returned.
NewDescription_Always(old, d) == d

\* lines 203-204: last_description after send_to_gateway returned d
NewDescription(old, d) == IF d # None THEN d ELSE old

\* line 115: `if description:` is false for None and for ""
Truthy(d) == d # None /\ Val(d) # ""

\* display_update raises inside wrap_text when description is not a string
DisplayRaises(d) == Truthy(d) /\ Val(d) = NonString

\* lines 100-120: what the OLED shows after display_update(display, t, h, d)
Shown(t, h, d) ==
    [temp |-> Some(Round1(t)), humidity |-> Some(Round0(h)),
     description |-> IF Truthy(d) THEN d ELSE None]

\* lines 178-181: the screen after start-up shows the IP address only
StartScreen == [temp |-> None, humidity |-> None, description |-> None]

VARIABLES
    fpc,              \* where main() is: top, connecting, sending, halted
    connected,        \* wlan.isconnected()
    ftime,            \* time.time() of the firmware
    last_send,        \* main()'s last_send
    last_temp_c,      \* main()'s last_temp_c
    last_humidity,    \* main()'s last_humidity
    last_description, \* main()'s last_description
    display,          \* what the OLED shows
    fnow,             \* main()'s local `now`
    attempt,          \* send_to_gateway's loop variable
    reply,            \* send_to_gateway's (code, body) of the latest POST
    desc,             \* main()'s local `desc`
    attempts,         \* history: POSTs issued by the latest send_to_gateway
    backoffs,         \* history: time.sleep(0.5) calls of the latest send_to_gateway
    sampled_at,       \* history: time.time() of the latest read_dht since the loop
                      \* last saw the network down, or None
    after_reconnect   \* history: the latest iteration was one that reconnected

fwvars == <<fpc, connected, ftime, last_send, last_temp_c, last_humidity,
            last_description, display, fnow, attempt, reply, desc, attempts, backoffs,
            sampled_at, after_reconnect>>

vars == <<gwvars, fwvars>>

\* time.time() when main() starts: 0 after a power-on (the RTC starts at its
\* epoch), later when the RTC kept running.
BootTimes == {0, 40}

\* main() lines 174-187, after connect_wifi() returned
FwInit ==
    /\ fpc = "top"
    /\ connected = TRUE
    /\ ftime \in BootTimes
    /\ last_send = 0
    /\ last_temp_c = None
    /\ last_humidity = None
    /\ last_description = None
    /\ display = StartScreen
    /\ fnow = 0
    /\ attempt = 0
    /\ reply = NoReply
    /\ desc = None
    /\ attempts = 0
    /\ backoffs = 0
    /\ sampled_at = None
    /\ after_reconnect = FALSE

GwInit ==
    /\ configured \in BOOLEAN
    /\ ttl \in 1..MaxTTL
    /\ cached_outside = None
    /\ clock = 0
    /\ pc = [r \in Requests |-> "idle"]
    /\ inbound = [r \in Requests |-> NoReading]
    /\ reading = [r \in Requests |-> NoReading]
    /\ now = [r \in Requests |-> 0]
    /\ outside = [r \in Requests |-> None]
    /\ prompt = [r \in Requests |-> <<>>]
    /\ result = [r \in Requests |-> NoResponse]
    /\ answer = [r \in Requests |-> NoAnswer]
    /\ looked_up = [r \in Requests |-> FALSE]
    /\ gets = [r \in Requests |-> 0]
    /\ fetched = [r \in Requests |-> ""]
    /\ posts = [r \in Requests |-> 0]
    /\ written_at = None

\* A handler that has ended sends its response before anything else happens.
\* (The steps of other requests neither read nor write what describe_end
\* touches, so this order loses no behaviour.)
NoneDone == \A q \in Requests : pc[q] # "done"

\* line 137 and line 98: the prompt is built from rd and the POST is issued.
StartPost(r, rd) ==
    /\ reading' = [reading EXCEPT ![r] = rd]
    /\ prompt' = [prompt EXCEPT ![r] = build_prompt(rd)]
    /\ posts' = [posts EXCEPT ![r] = @ + 1]
    /\ pc' = [pc EXCEPT ![r] = "post"]

\* POST /describe with a schema-valid body for which line 126 is false: no
\* lookup; the prompt is built from the inbound reading and the POST is issued.
describe_skip(r, rd) ==
    /\ NoneDone
    /\ pc[r] = "idle"
    /\ ~ShouldEnrich(rd, configured)
    /\ inbound' = [inbound EXCEPT ![r] = rd]
    /\ StartPost(r, rd)
    /\ UNCHANGED <<configured, ttl, cached_outside, clock, now, outside, result,
                   answer, looked_up, gets, fetched>>
    /\ UNCHANGED written_at
    /\ UNCHANGED fwvars

\* POST /describe with a schema-valid body for which line 126 is true: the
\* lookup is called and runs lines 41-45.  An unset location returns None, a
\* fresh cache entry is returned, otherwise the GET is issued.
describe_lookup(r, rd) ==
    /\ NoneDone
    /\ pc[r] = "idle"
    /\ ShouldEnrich(rd, configured)
    /\ inbound' = [inbound EXCEPT ![r] = rd]
    /\ reading' = [reading EXCEPT ![r] = rd]
    /\ looked_up' = [looked_up EXCEPT ![r] = TRUE]
    /\ IF ~LocationSet(configured)
         THEN /\ pc' = [pc EXCEPT ![r] = "enrich"]
              /\ outside' = [outside EXCEPT ![r] = None]
              /\ UNCHANGED <<now, gets, fetched>>
         ELSE IF IsFresh(cached_outside, clock, ttl)
         THEN /\ pc' = [pc EXCEPT ![r] = "enrich"]
              /\ outside' = [outside EXCEPT ![r] = Some(CachedPair(cached_outside))]
              /\ fetched' = [fetched EXCEPT ![r] = "hit"]
              /\ UNCHANGED <<now, gets>>
         ELSE /\ pc' = [pc EXCEPT ![r] = "get"]
              /\ now' = [now EXCEPT ![r] = clock]
              /\ gets' = [gets EXCEPT ![r] = @ + 1]
              /\ UNCHANGED <<outside, fetched>>
    /\ UNCHANGED <<configured, ttl, cached_outside, clock, prompt, result, answer,
                   posts>>
    /\ UNCHANGED written_at
    /\ UNCHANGED fwvars

\* lines 52-63: the GET ends; success writes the cache, failure falls back.
fetch_get(r, ans) ==
    /\ NoneDone
    /\ pc[r] = "get"
    /\ cached_outside' = CacheAfterGet(cached_outside, ans, now[r])
    /\ outside' = [outside EXCEPT ![r] = ReturnAfterGet(cached_outside, ans)]
    /\ fetched' = [fetched EXCEPT ![r] = IF ans.kind = "ok" THEN "ok" ELSE "failed"]
    /\ now' = [now EXCEPT ![r] = 0]
    /\ pc' = [pc EXCEPT ![r] = "enrich"]
    /\ UNCHANGED <<configured, ttl, clock, inbound, reading, prompt, result, answer,
                   looked_up, gets, posts>>
    /\ written_at' = IF ans.kind = "ok" THEN Some(clock) ELSE written_at
    /\ UNCHANGED fwvars

\* lines 128-137 and 98: with a pair, the reading is rebuilt; then the prompt
\* is built and the POST issued.  SensorReading(...) raises ValidationError
\* when a rounded value is outside its Field range; describe() does not catch
\* it and the framework answers 500.
describe_enrich(r) ==
    /\ NoneDone
    /\ pc[r] = "enrich"
    /\ IF IsNone(outside[r])
         THEN /\ StartPost(r, reading[r])
              /\ UNCHANGED result
         ELSE IF ValidReading(Enriched(reading[r], Val(outside[r])))
         THEN /\ StartPost(r, Enriched(reading[r], Val(outside[r])))
              /\ UNCHANGED result
         ELSE /\ result' = [result EXCEPT ![r] = InternalError]
              /\ pc' = [pc EXCEPT ![r] = "done"]
              /\ UNCHANGED <<reading, prompt, posts>>
    /\ UNCHANGED <<configured, ttl, cached_outside, clock, inbound, now, outside,
                   answer, looked_up, gets, fetched>>
    /\ UNCHANGED written_at
    /\ UNCHANGED fwvars

\* lines 98-104 and 139-146: the POST ends with answer ans; describe() returns
\* the description or raises HTTPException(502).
describe_reply(r, ans) ==
    /\ NoneDone
    /\ pc[r] = "post"
    /\ answer' = [answer EXCEPT ![r] = ans]
    /\ result' = [result EXCEPT ![r] = DescribeResult(call_ollama(ans))]
    /\ pc' = [pc EXCEPT ![r] = "done"]
    /\ UNCHANGED <<configured, ttl, cached_outside, clock, inbound, reading, now,
                   outside, prompt, looked_up, gets, fetched, posts>>
    /\ UNCHANGED written_at
    /\ UNCHANGED fwvars

\* describe() is over: the response is sent and the worker is free again.
describe_end(r) ==
    /\ pc[r] = "done"
    /\ pc' = [pc EXCEPT ![r] = "idle"]
    /\ inbound' = [inbound EXCEPT ![r] = NoReading]
    /\ reading' = [reading EXCEPT ![r] = NoReading]
    /\ now' = [now EXCEPT ![r] = 0]
    /\ outside' = [outside EXCEPT ![r] = None]
    /\ prompt' = [prompt EXCEPT ![r] = <<>>]
    /\ result' = [result EXCEPT ![r] = NoResponse]
    /\ answer' = [answer EXCEPT ![r] = NoAnswer]
    /\ looked_up' = [looked_up EXCEPT ![r] = FALSE]
    /\ gets' = [gets EXCEPT ![r] = 0]
    /\ fetched' = [fetched EXCEPT ![r] = ""]
    /\ posts' = [posts EXCEPT ![r] = 0]
    /\ UNCHANGED <<configured, ttl, cached_outside, clock>>
    /\ UNCHANGED written_at
    /\ UNCHANGED fwvars

\* Time passes.
Tick ==
    /\ NoneDone
    /\ clock < MaxClock
    /\ clock' = clock + 1
    /\ UNCHANGED <<configured, ttl, cached_outside, pc, inbound, reading, now,
                   outside, prompt, result, answer, looked_up, gets, fetched, posts>>
    /\ UNCHANGED written_at
    /\ UNCHANGED fwvars

Next ==
    \/ \E r \in Requests, rd \in Readings : describe_skip(r, rd)
    \/ \E r \in Requests, rd \in Readings : describe_lookup(r, rd)
    \/ \E r \in Requests, ans \in WeatherAnswers : fetch_get(r, ans)
    \/ \E r \in Requests : describe_enrich(r)
    \/ \E r \in Requests, ans \in OllamaAnswers : describe_reply(r, ans)
    \/ \E r \in Requests : describe_end(r)
    \/ Tick

\* ------------------------------------------------------- firmware actions
\* lines 203-206 of main(), after send_to_gateway returned d: the description
\* is stored, the display redrawn and the interval timer restarted.  When
\* display_update raises, main() ends with the exception before show() and
\* before line 206.
FinishCycle(d) ==
    /\ desc' = d
    /\ last_description' = NewDescription(last_description, d)
    /\ IF DisplayRaises(NewDescription(last_description, d))
         THEN /\ fpc' = "halted"
              /\ UNCHANGED <<display, last_send>>
         ELSE /\ fpc' = "top"
              /\ display' = Shown(Val(last_temp_c), Val(last_humidity),
                                  NewDescription(last_description, d))
              /\ last_send' = fnow

\* lines 190-191: the loop finds the network down and enters connect_wifi(),
\* which blocks in its while loop.
fw_disconnected ==
    /\ fpc = "top"
    /\ ~connected
    /\ fpc' = "connecting"
    /\ UNCHANGED <<connected, ftime, last_send, last_temp_c, last_humidity,
                   last_description, display, fnow, attempt, reply, desc,
                   attempts, backoffs>>
    /\ sampled_at' = None
    /\ after_reconnect' = FALSE
    /\ UNCHANGED gwvars

\* lines 128-130 and 192-194: connect_wifi() returns once connected; the
\* interval timer is reset and the iteration is skipped.
fw_reconnected ==
    /\ fpc = "connecting"
    /\ connected
    /\ last_send' = 0
    /\ fpc' = "top"
    /\ UNCHANGED <<connected, ftime, last_temp_c, last_humidity, last_description,
                   display, fnow, attempt, reply, desc, attempts, backoffs>>
    /\ after_reconnect' = TRUE
    /\ UNCHANGED sampled_at
    /\ UNCHANGED gwvars

\* lines 196-197 false, 208: the interval has not passed; sleep.
fw_wait ==
    /\ fpc = "top"
    /\ connected
    /\ ~(ftime - last_send >= SEND_INTERVAL_SEC)
    /\ fnow' = ftime
    /\ UNCHANGED <<fpc, connected, ftime, last_send, last_temp_c, last_humidity,
                   last_description, display, attempt, reply, desc, attempts, backoffs>>
    /\ after_reconnect' = FALSE
    /\ UNCHANGED sampled_at
    /\ UNCHANGED gwvars

\* lines 196-199, 208: the interval has passed and the sensor is read.  A
\* failed read ends the iteration.  A valid sample is stored and
\* send_to_gateway issues its first POST (lines 200-202, 147-152).
fw_sample(o) ==
    /\ fpc = "top"
    /\ connected
    /\ ftime - last_send >= SEND_INTERVAL_SEC
    /\ fnow' = ftime
    /\ IF read_dht(o) = None
         THEN UNCHANGED <<fpc, last_temp_c, last_humidity, attempt, reply, desc,
                          attempts, backoffs>>
         ELSE /\ last_temp_c' = Some(Val(read_dht(o))[1])
              /\ last_humidity' = Some(Val(read_dht(o))[2])
              /\ fpc' = "sending"
              /\ attempt' = 0
              /\ attempts' = 1
              /\ backoffs' = 0
              /\ reply' = NoReply
              /\ desc' = None
    /\ UNCHANGED <<connected, ftime, last_send, last_description, display>>
    /\ sampled_at' = Some(ftime)
    /\ after_reconnect' = FALSE
    /\ UNCHANGED gwvars

\* lines 152-153 false, 164-168, then 148-152: the POST failed and another
\* attempt follows after the backoff.
fw_retry(rep) ==
    /\ fpc = "sending"
    /\ ~Is200(rep)
    /\ MoreAttempts(attempt)
    /\ reply' = rep
    /\ attempt' = attempt + 1
    /\ backoffs' = backoffs + 1
    /\ attempts' = attempts + 1
    /\ UNCHANGED <<fpc, connected, ftime, last_send, last_temp_c, last_humidity,
                   last_description, display, fnow, desc>>
    /\ UNCHANGED <<sampled_at, after_reconnect>>
    /\ UNCHANGED gwvars

\* lines 164-170, then 203-208: the last attempt failed; send_to_gateway
\* returns None.
fw_exhausted(rep) ==
    /\ fpc = "sending"
    /\ ~Is200(rep)
    /\ ~MoreAttempts(attempt)
    /\ reply' = rep
    /\ FinishCycle(None)
    /\ UNCHANGED <<connected, ftime, last_temp_c, last_humidity, fnow, attempt,
                   attempts, backoffs>>
    /\ UNCHANGED <<sampled_at, after_reconnect>>
    /\ UNCHANGED gwvars

\* lines 153-163, then 203-208: the POST returned 200.
fw_ok(rep) ==
    /\ fpc = "sending"
    /\ Is200(rep)
    /\ reply' = rep
    /\ IF OnOk(rep).raised
         THEN /\ fpc' = "halted"
              /\ UNCHANGED <<desc, last_description, display, last_send>>
         ELSE FinishCycle(OnOk(rep).value)
    /\ UNCHANGED <<connected, ftime, last_temp_c, last_humidity, fnow, attempt,
                   attempts, backoffs>>
    /\ UNCHANGED <<sampled_at, after_reconnect>>
    /\ UNCHANGED gwvars

\* The network goes down or comes back.
WifiDown ==
    /\ connected
    /\ connected' = FALSE
    /\ UNCHANGED <<fpc, ftime, last_send, last_temp_c, last_humidity,
                   last_description, display, fnow, attempt, reply, desc,
                   attempts, backoffs>>
    /\ UNCHANGED <<sampled_at, after_reconnect>>
    /\ UNCHANGED gwvars

WifiUp ==
    /\ ~connected
    /\ connected' = TRUE
    /\ UNCHANGED <<fpc, ftime, last_send, last_temp_c, last_humidity,
                   last_description, display, fnow, attempt, reply, desc,
                   attempts, backoffs>>
    /\ UNCHANGED <<sampled_at, after_reconnect>>
    /\ UNCHANGED gwvars

\* Time passes on the firmware (sleeps, blocking calls).
FwTick ==
    /\ ftime + FwTickSec <= MaxFwClock
    /\ ftime' = ftime + FwTickSec
    /\ UNCHANGED <<fpc, connected, last_send, last_temp_c, last_humidity,
                   last_description, display, fnow, attempt, reply, desc,
                   attempts, backoffs>>
    /\ UNCHANGED <<sampled_at, after_reconnect>>
    /\ UNCHANGED gwvars

FwNext ==
    \/ fw_disconnected
    \/ fw_reconnected
    \/ fw_wait
    \/ \E o \in SensorOutcomes : fw_sample(o)
    \/ \E rep \in Replies : fw_retry(rep)
    \/ \E rep \in Replies : fw_exhausted(rep)
    \/ \E rep \in Replies : fw_ok(rep)
    \/ WifiDown
    \/ WifiUp
    \/ FwTick

\* The gateway variables are held at a fixed configuration under SpecFw.
GwIdle ==
    /\ GwInit
    /\ configured = TRUE
    /\ ttl = 1

InitFw == GwIdle /\ FwInit

SpecFw == InitFw /\ [][FwNext]_vars

\* The firmware variables are held at their start values under Spec.
FwIdle ==
    /\ FwInit
    /\ ftime = 0

Init == GwInit /\ FwIdle

Spec == Init /\ [][Next]_vars

\* ================================================================== claims
\* Text that is empty or whitespace only.
Blank(t) == \A i \in 1..Len(t) : t[i] = " "

\* t is raw without its leading and trailing whitespace.
IsTrimOf(t, raw) ==
    /\ t # <<>>
    /\ t[1] # " "
    /\ t[Len(t)] # " "
    /\ \E i \in 0..(Len(raw) - Len(t)) :
         /\ SubSeq(raw, i + 1, i + Len(t)) = t
         /\ \A j \in 1..Len(raw) : (j <= i \/ j > i + Len(t)) => raw[j] = " "

\* The inference call fails for a reason other than a non-2xx status.
OtherInferenceFailure(ans) ==
    \/ ans.kind \in {"transport", "badjson", "notdict"}
    \/ ans.kind = "json" /\ (IsNone(ans.response) \/ Blank(Val(ans.response)))

\* C1: every response of /describe is 200 with a description or 502; nothing
\* that happens in the weather lookup reaches the caller as a failure.
\* (Violated: a weather value that rounds outside the SensorReading range makes
\* SensorReading(...) raise on line 129 and the caller gets 500.)
C1_TwoOutcomes ==
    \A r \in Requests :
        pc[r] = "done" =>
          \/ result[r].status = 200 /\ result[r].prefix = "description"
          \/ result[r].status = 502

\* C2: when the inference server answers non-2xx the response is 502 with
\* detail "Ollama error: <upstream body>"; every other inference failure is
\* 502 with detail starting "Ollama unavailable:".
C2_InferenceFailurePrefix ==
    \A r \in Requests :
        pc[r] = "done" =>
          /\ answer[r].kind = "status" =>
               result[r] = [status |-> 502, prefix |-> "Ollama error: ",
                            text |-> answer[r].body]
          /\ OtherInferenceFailure(answer[r]) =>
               result[r].status = 502 /\ result[r].prefix = "Ollama unavailable: "
          /\ result[r].status = 502 =>
               answer[r].kind = "status" \/ OtherInferenceFailure(answer[r])

C2_Witness ==
    \E r \in Requests :
        /\ pc[r] = "done"
        /\ answer[r].kind = "status"
        /\ result[r].status = 502
        /\ result[r].prefix = "Ollama error: "
        /\ result[r].text # <<>>

\* C3: a weather GET that fails in any way does not raise, leaves the cache
\* exactly as it was, and returns the cached pair whatever its age, or None
\* when there is no entry.
C3_FailedGetFallsBack ==
    [][\A r \in Requests : pc[r] = "get" /\ pc'[r] # "get" =>
       \A ans \in WeatherAnswers :
         fetch_get(r, ans) /\ ans.kind # "ok" =>
           /\ cached_outside' = cached_outside
           /\ pc'[r] = "enrich"
           /\ outside'[r] = IF cached_outside = None THEN None
                            ELSE Some(<<cached_outside[1], cached_outside[2]>>)]_vars

\* a failed GET answered from an entry that is no longer fresh
C3_Witness ==
    \E r \in Requests :
        /\ fetched[r] = "failed"
        /\ cached_outside # None
        /\ clock - cached_outside[3] >= ttl
        /\ outside[r] = Some(<<cached_outside[1], cached_outside[2]>>)

\* C4: with a cache entry younger than the TTL the lookup returns the entry's
\* pair, issues no GET and leaves the cache alone.
C4_FreshHitNoNetwork ==
    [][\A r \in Requests : pc[r] = "idle" /\ pc'[r] # "idle" =>
       \A rd \in Readings :
         (/\ describe_lookup(r, rd)
          /\ cached_outside # None
          /\ clock - cached_outside[3] < ttl) =>
           /\ outside'[r] = Some(<<cached_outside[1], cached_outside[2]>>)
           /\ pc'[r] # "get"
           /\ gets'[r] = 0
           /\ cached_outside' = cached_outside]_vars

C4_Witness ==
    \E r \in Requests :
        /\ fetched[r] = "hit"
        /\ gets[r] = 0
        /\ outside[r] # None

\* A value in hundredths with one decimal, nearest to x.
RoundedFrom(v, x) == v % 10 = 0 /\ v - x <= 5 /\ x - v <= 5

C6_BoundedRetries ==
    [][/\ HTTP_RETRIES + 1 = 3
       /\ (fpc = "top" /\ fpc' = "sending") => attempts' = 1 /\ backoffs' = 0
       /\ (fpc = "sending" /\ attempts' # attempts) =>
            /\ fpc' = "sending"
            /\ attempts' = attempts + 1
            /\ attempts' <= HTTP_RETRIES + 1
            /\ backoffs' = backoffs + 1
            /\ reply' # NoReply
            /\ ~Is200(reply')
       /\ (fpc = "sending" /\ Is200(reply')) => fpc' # "sending" /\ attempts' = attempts
       /\ (fpc = "sending" /\ fpc' # "sending") =>
            /\ attempts' = attempts
            /\ backoffs' = attempts - 1
            /\ attempts >= 1
            /\ Is200(reply') \/ attempts = HTTP_RETRIES + 1
            /\ ~Is200(reply') => desc' = None
            /\ (Is200(reply') /\ reply'.kind = "desc") => desc' = Some(reply'.description)
      ]_vars

\* two failed POSTs, then a 200 whose description is returned
C6_Witness ==
    /\ fpc = "top"
    /\ attempts = 3
    /\ backoffs = 2
    /\ Is200(reply)
    /\ reply.kind = "desc"
    /\ desc = Some("It's cozy inside.")

\* C7 as stated: a 200 is a success for every body; JSON gives the description
\* field, a body that is not JSON gives the raw body, and the stored
\* description is updated in both cases.
\* (Violated: for a body that is not JSON, lines 161-163 print the body and
\* return None.)
C7_Original ==
    [][(fpc = "sending" /\ Is200(reply') /\ reply'.kind \in {"desc", "notjson"}) =>
         /\ desc' = Some(IF reply'.kind = "desc" THEN reply'.description ELSE RawBody)
         /\ last_description' = desc'
      ]_vars

\* C7 amended: a 200 ends the call without a further POST.  A JSON object with
\* a string description returns that string, a JSON object without a
\* description field returns the raw body, and the stored description is
\* updated in both cases.  A body that is not JSON returns None: the stored
\* and the displayed description keep their previous values, and the new
\* temperature and humidity are still shown.
C7_OkBodyHandling ==
    [][(fpc = "sending" /\ Is200(reply') /\ reply'.kind \in {"desc", "nodesc", "notjson"}) =>
         /\ fpc' = "top"
         /\ attempts' = attempts
         /\ reply'.kind = "desc" =>
              desc' = Some(reply'.description) /\ last_description' = desc'
         /\ reply'.kind = "nodesc" =>
              desc' = Some(RawBody) /\ last_description' = desc'
         /\ reply'.kind = "notjson" =>
              /\ desc' = None
              /\ last_description' = last_description
              /\ display'.description = display.description
              /\ display'.temp = last_temp_c
      ]_vars

\* a 200 whose body is not JSON, after a cycle that stored a description
C7_Witness ==
    /\ fpc = "top"
    /\ Is200(reply)
    /\ reply.kind = "notjson"
    /\ desc = None
    /\ last_description = Some("It's cozy inside.")
    /\ display.description = last_description

\* C8: a cycle with a valid sample ends with the display showing that sample's
\* temperature and humidity, whether or not the send succeeded; the stored
\* description changes only in a cycle whose send got a 200, and after a cycle
\* that exhausted its retries it is the description shown before the cycle.
C8_DisplayAfterCycle ==
    [][/\ (fpc = "sending" /\ fpc' = "top") =>
            /\ display'.temp = last_temp_c
            /\ display'.humidity = last_humidity
            /\ display'.description =
                 (IF Truthy(last_description') THEN last_description' ELSE None)
            /\ ~Is200(reply') =>
                 /\ last_description' = last_description
                 /\ display'.description = display.description
       /\ last_description' # last_description => fpc = "sending" /\ Is200(reply')
       /\ display' # display => fpc = "sending" /\ fpc' = "top"
       /\ (fpc = "top" /\ fpc' = "sending") =>
            ~IsNone(last_temp_c') /\ ~IsNone(last_humidity')
      ]_vars

\* retries exhausted: the new sample is shown beside the old description
C8_Witness ==
    /\ fpc = "top"
    /\ attempts = 3
    /\ reply # NoReply
    /\ ~Is200(reply)
    /\ last_description = Some("It's cozy inside.")
    /\ display = [temp |-> Some(2400), humidity |-> Some(5000),
                  description |-> Some("It's cozy inside.")]

\* C9: call_ollama issues one POST per call and returns only on a 2xx answer
\* whose text is non-empty after trimming; it returns that trimmed text.  A
\* 2xx answer with a missing, empty or whitespace-only text is a failure.
C9_OnePostTrimmedText ==
    \A r \in Requests :
        /\ pc[r] = "post" => posts[r] = 1
        /\ pc[r] = "done" /\ posts[r] > 0 =>
             /\ posts[r] = 1
             /\ result[r].status = 200 <=>
                  /\ answer[r].kind = "json"
                  /\ ~IsNone(answer[r].response)
                  /\ ~Blank(Val(answer[r].response))
             /\ result[r].status = 200 =>
                  IsTrimOf(result[r].text, Val(answer[r].response))
             /\ (/\ answer[r].kind = "json"
                 /\ (IsNone(answer[r].response) \/ Blank(Val(answer[r].response)))) =>
                  result[r].status = 502

C9_Witness ==
    \E r \in Requests :
        /\ pc[r] = "done"
        /\ answer[r].kind = "json"
        /\ answer[r].response = Some(<<" ", "a">>)
        /\ result[r].status = 200
        /\ result[r].text = <<"a">>

\* The line of the prompt that names the outside temperature, if any.
IsOutsideLine(l) == Len(l) = 3 /\ l[1] = "Outside temperature: "

\* C10: build_prompt's output has the outside-temperature line and the
\* comparison instruction iff outside_temp_c is present, the outside-conditions
\* instruction iff outside_humidity is present, and always the preamble, the
\* two indoor lines, the base instruction and the style instruction.
C10_PromptGating ==
    \A r \in Requests :
        pc[r] = "post" =>
          /\ HasLine(prompt[r], PreambleLine)
          /\ HasLine(prompt[r], InsideLine(reading[r].temperature_c))
          /\ HasLine(prompt[r], HumidityLine(reading[r].humidity))
          /\ HasLine(prompt[r], BaseLine)
          /\ HasLine(prompt[r], StyleLine)
          /\ (\E i \in 1..Len(prompt[r]) : IsOutsideLine(prompt[r][i]))
               <=> ~IsNone(reading[r].outside_temp_c)
          /\ ~IsNone(reading[r].outside_temp_c) =>
               HasLine(prompt[r], OutsideLine(Val(reading[r].outside_temp_c)))
          /\ HasLine(prompt[r], CompareLine) <=> ~IsNone(reading[r].outside_temp_c)
          /\ HasLine(prompt[r], MentionLine) <=> ~IsNone(reading[r].outside_humidity)

C10_Witness ==
    \E r \in Requests :
        /\ pc[r] = "post"
        /\ ~IsNone(reading[r].outside_temp_c)
        /\ IsNone(reading[r].outside_humidity)
        /\ HasLine(prompt[r], CompareLine)
        /\ ~HasLine(prompt[r], MentionLine)

\* C11: a lookup made right after a successful fetch wrote the cache (no time
\* has passed since the write) returns the pair just written, without a GET;
\* a lookup made when the TTL or more has passed since the write issues a GET.
\* (Violated: the entry is stamped with `now` of line 43, taken before the
\* GET; when the GET took the TTL or longer, the entry is already expired
\* when it is written and the next lookup issues a GET.)
C11_PutThenGet ==
    [][\A r \in Requests : pc[r] = "idle" /\ pc'[r] # "idle" =>
       \A rd \in Readings :
         (/\ describe_lookup(r, rd)
          /\ cached_outside # None
          /\ written_at # None) =>
           /\ Val(written_at) = clock =>
                /\ outside'[r] = Some(<<cached_outside[1], cached_outside[2]>>)
                /\ gets'[r] = 0
           /\ clock - Val(written_at) >= ttl =>
                /\ pc'[r] = "get"
                /\ gets'[r] = 1]_vars

\* C12: the firmware loop never halts, whatever the gateway answers.
\* (Violated: a 200 whose body is JSON but no object makes out.get raise
\* AttributeError on line 156, and a 200 whose description is no string makes
\* wrap_text raise inside display_update; neither is caught and main() ends.)
C12_NeverHalts == fpc # "halted"

\* C13: while the loop sees the network connected, two consecutive sensor
\* reads are at least SEND_INTERVAL_SEC apart, whatever the earlier read and
\* its send came to.
\* (Violated: line 206 restarts the timer only inside `if temp_c is not None`,
\* so after a failed read the next iteration reads the sensor again.)
C13_SampleSpacing ==
    [][\A o \in SensorOutcomes :
         (fw_sample(o) /\ sampled_at # None) =>
           ftime - Val(sampled_at) >= SEND_INTERVAL_SEC]_vars

\* C14: an iteration that finds the network down reads no sensor, sends no
\* POST and redraws nothing; it blocks until reconnected, sets last_send to 0
\* and leaves the stored temperature, humidity and description alone; the
\* first iteration after it reads the sensor without waiting.
\* (Violated in its last part: with last_send = 0 line 197 compares
\* time.time() itself with the interval, and time.time() is below 30 in the
\* first half minute after a power-on, so the iteration waits.)
C14_DisconnectedIteration ==
    [][/\ (fw_disconnected \/ fw_reconnected) =>
            UNCHANGED <<last_temp_c, last_humidity, last_description, display,
                        attempts, reply, desc>>
       /\ fw_disconnected => fpc' = "connecting" /\ UNCHANGED last_send
       /\ fw_reconnected => last_send' = 0 /\ fpc' = "top" /\ connected
       /\ after_reconnect => ~fw_wait]_vars

\* C15: within one request the lookup has returned before the prompt is
\* built and the prompt is built before the POST is issued; a request issues
\* at most one GET and exactly one POST, and the prompt sent is the one built
\* from the request's own reading.
\* (Violated: a request that ends in the uncaught ValidationError of line 129
\* ends without a prompt and without a POST.)
C15_OrderedSteps ==
    \A r \in Requests :
        /\ gets[r] <= 1
        /\ posts[r] <= 1
        /\ pc[r] \in {"idle", "get", "enrich"} => posts[r] = 0 /\ prompt[r] = <<>>
        /\ pc[r] = "post" => posts[r] = 1
        /\ posts[r] = 1 =>
             /\ prompt[r] = build_prompt(reading[r])
             /\ looked_up[r] => fetched[r] \in {"hit", "ok", "failed"}
        /\ pc[r] = "done" => posts[r] = 1

\* C16: a successful fetch writes the entry with the time of the write:
\* fetched_at is the clock at the moment line 58 runs.
\* (Violated: line 58 writes `now`, taken on line 43 before the GET.)
C16_StampIsWriteTime ==
    [][\A r \in Requests : pc[r] = "get" /\ pc'[r] # "get" =>
       \A ans \in WeatherAnswers :
         (fetch_get(r, ans) /\ ans.kind = "ok") =>
           cached_outside'[3] = clock]_vars

\* C17: the cache is absent at start; it changes only in a step in which a
\* GET succeeded, and then to the complete triple of that fetch (the pair it
\* returns and its timestamp); once present it is never absent again.
C17_CacheLifecycle ==
    /\ cached_outside = None
    /\ [][/\ cached_outside' # cached_outside =>
              \E r \in Requests :
                /\ pc[r] = "get"
                /\ pc'[r] = "enrich"
                /\ fetched'[r] = "ok"
                /\ Len(cached_outside') = 3
                /\ outside'[r] = Some(<<cached_outside'[1], cached_outside'[2]>>)
                /\ cached_outside'[3] = now[r]
          /\ cached_outside # None => cached_outside' # None]_vars

\* an entry that outlived a failed fetch, a cache hit and an inference call
C17_Witness ==
    /\ cached_outside # None
    /\ \E r, q \in Requests :
         /\ fetched[r] = "failed"
         /\ pc[r] = "done"
         /\ fetched[q] = "hit"

\* C18: the fetched_at of the cache entry never decreases.
\* (Violated: two lookups overlap; the one that started later writes first,
\* then the one that started earlier overwrites it with its older `now`.)
C18_StampMonotonic ==
    [][(cached_outside # None /\ cached_outside' # None) =>
         cached_outside'[3] >= cached_outside[3]]_vars

\* C19: at most one weather GET is in flight at a time, and none is issued
\* while the cache holds a fresh entry.
\* (Violated: nothing serialises lines 44-58, so two requests that both find
\* the cache absent or expired both issue a GET.)
C19_OneGetInFlight ==
    [][\A r \in Requests :
         (pc[r] # "get" /\ pc'[r] = "get") =>
           /\ \A q \in Requests \ {r} : pc[q] # "get"
           /\ ~IsFresh(cached_outside, clock, ttl)]_vars

\* C20: an iteration whose sensor read fails sends no POST, redraws nothing
\* and leaves last_temp_c, last_humidity, last_description and last_send as
\* they were.
C20_FailedReadChangesNothing ==
    [][\A o \in SensorOutcomes :
         (fw_sample(o) /\ o.kind # "ok") =>
           /\ fpc' = "top"
           /\ UNCHANGED <<last_temp_c, last_humidity, last_description, last_send,
                          display, attempts, attempt, reply, desc>>]_vars

\* a failed read is the only read so far: nothing stored, nothing drawn
C20_Witness ==
    /\ sampled_at # None
    /\ fpc = "top"
    /\ last_temp_c = None
    /\ attempts = 0
    /\ display = StartScreen

====
